---- MODULE Spec2Model ----
(***************************************************************************)
(* Model of src/hooks/useEstablishments.ts: the useEstablishments hook.    *)
(* The hook keeps a local cache (establishments) of the remote "hotels"    *)
(* table, a loading flag and an error message.  Every async function of    *)
(* the hook is split at its await points: the part before the await is one *)
(* step (it issues the gateway call), the gateway answers in a step of its *)
(* own, and the part after the await is one step again.                    *)
(***************************************************************************)
EXTENDS Integers, Sequences, FiniteSets, Bags, TLC

VARIABLES
    phase,           \* "constructed", "active" (subscribed) or "released"
    establishments,  \* the cache, line 29
    loading,         \* line 30
    error,           \* line 31
    remote,          \* the rows of the remote hotels table
    nextId,          \* the id the remote store assigns next
    events,          \* change events published and not yet delivered
    tasks,           \* the calls in flight, a bag
    started,         \* number of calls started so far
    gatewayFailed,   \* some gateway call has failed
    last             \* what the latest step did

vars == <<phase, establishments, loading, error, remote, nextId, events,
          tasks, started, gatewayFailed, last>>

-----------------------------------------------------------------------------
(* Bounds *)

\* operations (calls of the hook's async functions) started in one run
MaxOps == 3
\* ids the remote store hands out
MaxId == 2

\* names in alphabetical order
Alphabet == <<"a", "b">>
Names == {Alphabet[i] : i \in 1..Len(Alphabet)}
Rank(n) == CHOOSE i \in 1..Len(Alphabet) : Alphabet[i] = n
\* messages of the errors of a failed call
ErrMsgs == {"boom"}
\* message of the error of .single() when no row matches
NoRows == "no rows"

-----------------------------------------------------------------------------
(* Values *)

\* error === null
NoError == "null"

\* a Hotel row; taux_occupation is kept in hundredths of a percent
Hotel(i, n, ct, co, tx) ==
    [id |-> i, nom |-> n, chambres_total |-> ct, chambres_occupees |-> co,
     taux_occupation |-> tx]

\* a (partial) form: a field is <<>> when absent and <<v>> when present
Form(n, ct, co, tx) ==
    [nom |-> n, chambres_total |-> ct, chambres_occupees |-> co,
     taux_occupation |-> tx]
NoForm == Form(<<>>, <<>>, <<>>, <<>>)

Field(opt, old) == IF opt = <<>> THEN old ELSE opt[1]

\* { ...a, ...b }: the fields of b win
Spread(a, b) ==
    [nom |-> IF b.nom = <<>> THEN a.nom ELSE b.nom,
     chambres_total |-> IF b.chambres_total = <<>> THEN a.chambres_total
                        ELSE b.chambres_total,
     chambres_occupees |-> IF b.chambres_occupees = <<>> THEN a.chambres_occupees
                           ELSE b.chambres_occupees,
     taux_occupation |-> IF b.taux_occupation = <<>> THEN a.taux_occupation
                         ELSE b.taux_occupation]

\* gateway replies
NoResp ==
    [err |-> "none", message |-> "", isNull |-> TRUE, hotels |-> <<>>,
     reservations |-> <<>>, rooms |-> <<>>]
OkHotels(hs) == [NoResp EXCEPT !.isNull = FALSE, !.hotels = hs]
OkNull == NoResp
OkReservations(rs) == [NoResp EXCEPT !.isNull = FALSE, !.reservations = rs]
OkRooms(rs) == [NoResp EXCEPT !.isNull = FALSE, !.rooms = rs]
Failed(kind, msg) == [NoResp EXCEPT !.err = kind, !.message = msg]

\* return values
Ret(k, v) == [k |-> k, v |-> v]
RetNone == Ret("none", <<>>)

\* what a step did when a function resumed after an await: the function,
\* its id argument, the gateway call it had awaited, where it stopped
\* ("await" or "end"), the reply it handled, the cache it found, what it
\* returned or raised and the notifications it emitted; Other for the rest
Step(op, id, call, at, resp, before, frame) ==
    [op |-> op, id |-> id, call |-> call, at |-> at, resp |-> resp,
     before |-> before, ret |-> frame.ret, notifs |-> frame.notifs,
     thrown |-> frame.thrown]
Quiet == [ret |-> RetNone, notifs |-> <<>>, thrown |-> FALSE]
Other == Step("none", 0, "none", "none", NoResp, <<>>, Quiet)

-----------------------------------------------------------------------------
(* The gateway's view of the hotels table *)

\* faulty variant: the list is ordered by id, not by nom
BeforeById(h, g) == h.id < g.id

Before(h, g) ==
    \/ Rank(h.nom) < Rank(g.nom)
    \/ Rank(h.nom) = Rank(g.nom) /\ h.id < g.id

\* .from('hotels').select('*').order('nom', { ascending: true })
RECURSIVE ListHotels(_)
ListHotels(rows) ==
    IF rows = {} THEN <<>>
    ELSE LET h == CHOOSE x \in rows : \A y \in rows \ {x} : Before(x, y)
         IN  <<h>> \o ListHotels(rows \ {h})

RowsWithId(rows, i) == {h \in rows : h.id = i}

\* .insert([payload]): the store assigns the id
InsertedRow(payload, i) ==
    Hotel(i, payload.nom[1], Field(payload.chambres_total, 0),
          Field(payload.chambres_occupees, 0), Field(payload.taux_occupation, 0))

\* .update(formData).eq('id', id): the fields of formData overwrite the row's
UpdatedRow(h, formData) ==
    Hotel(h.id, Field(formData.nom, h.nom),
          Field(formData.chambres_total, h.chambres_total),
          Field(formData.chambres_occupees, h.chambres_occupees),
          Field(formData.taux_occupation, h.taux_occupation))

-----------------------------------------------------------------------------
(* The bodies of the async functions after their await.  A frame carries    *)
(* the React state the function writes, the notifications it adds, a        *)
(* pending exception (thrown, err) and the value it returns.                *)

Throw(f, msg) == [f EXCEPT !.thrown = TRUE, !.err = msg]
Caught(f) == [f EXCEPT !.thrown = FALSE]
addNotification(f, severity) == [f EXCEPT !.notifs = Append(@, severity)]
Return(f, r) == [f EXCEPT !.ret = r]
Returned(f) == f.ret # RetNone

RetVoid == Ret("void", <<>>)
RetNull == Ret("null", <<>>)
RetTrue == Ret("true", <<>>)
RetFalse == Ret("false", <<>>)
RetRecord(resp) == IF resp.isNull THEN RetNull ELSE Ret("record", resp.hotels)

\* faulty variant: the returned list is merged into the previous snapshot
FetchEstablishmentsTryMerge(f, resp) ==
    IF resp.err # "none" THEN Throw(f, resp.message)
    ELSE [f EXCEPT !.establishments =
                      f.establishments \o (IF resp.isNull THEN <<>> ELSE resp.hotels)]

\* fetchEstablishments, lines 45-49
FetchEstablishmentsTry(f, resp) ==
    IF resp.err # "none" THEN Throw(f, resp.message)
    ELSE [f EXCEPT !.establishments = IF resp.isNull THEN <<>> ELSE resp.hotels]

\* faulty variant: the error message is not recorded
FetchEstablishmentsCatchNoSetError(f) ==
    IF f.thrown THEN addNotification(Caught(f), "warning") ELSE f

\* fetchEstablishments, lines 50-53
FetchEstablishmentsCatch(f) ==
    IF f.thrown
    THEN addNotification([Caught(f) EXCEPT !.error = f.err], "warning")
    ELSE f

\* fetchEstablishments, lines 54-56
FetchEstablishmentsFinally(f) == [f EXCEPT !.loading = FALSE]

FetchEstablishmentsAfterAwait(f, resp) ==
    LET g == FetchEstablishmentsFinally(
                 FetchEstablishmentsCatch(FetchEstablishmentsTry(f, resp)))
    IN  IF g.thrown THEN g ELSE Return(g, RetVoid)

\* fetchEstablishmentById, lines 68-72
FetchEstablishmentByIdTry(f, resp) ==
    IF resp.err # "none" THEN Throw(f, resp.message)
    ELSE Return(f, RetRecord(resp))

\* faulty variant: the error is notified and thrown again
FetchEstablishmentByIdCatchRethrow(f) ==
    IF f.thrown THEN addNotification(f, "warning") ELSE f

\* fetchEstablishmentById, lines 73-77
FetchEstablishmentByIdCatch(f) ==
    IF f.thrown THEN Return(addNotification(Caught(f), "warning"), RetNull)
    ELSE f

FetchEstablishmentByIdAfterAwait(f, resp) ==
    FetchEstablishmentByIdCatch(FetchEstablishmentByIdTry(f, resp))

\* faulty variant: the zeros are spread first, the form's fields win
InsertPayloadFormWins(formData) ==
    Spread(Form(<<>>, <<0>>, <<0>>, <<0>>), formData)

\* createEstablishment, lines 85-90: the record handed to insert
InsertPayload(formData) ==
    Spread(formData, Form(<<>>, <<0>>, <<0>>, <<0>>))

\* faulty variant: the cache is rebuilt from the created record alone
CreateEstablishmentTryReset(f, resp) ==
    IF resp.err # "none" THEN Throw(f, resp.message)
    ELSE Return(
           addNotification([f EXCEPT !.establishments = resp.hotels],
                           "success"),
           RetRecord(resp))

\* createEstablishment, lines 94-103
CreateEstablishmentTry(f, resp) ==
    IF resp.err # "none" THEN Throw(f, resp.message)
    ELSE Return(
           addNotification(
             [f EXCEPT !.establishments = f.establishments \o resp.hotels],
             "success"),
           RetRecord(resp))

\* createEstablishment, lines 104-108
CreateEstablishmentCatch(f) ==
    IF f.thrown THEN Return(addNotification(Caught(f), "warning"), RetNull)
    ELSE f

CreateEstablishmentAfterAwait(f, resp) ==
    CreateEstablishmentCatch(CreateEstablishmentTry(f, resp))

\* faulty variant: a record whose id is not in the cache is appended
MapReplaceOrAppend(prev, id, data) ==
    IF \E i \in 1..Len(prev) : prev[i].id = id
    THEN [i \in 1..Len(prev) |-> IF prev[i].id = id THEN data ELSE prev[i]]
    ELSE Append(prev, data)

\* prev.map(est => est.id === id ? data : est)
MapReplace(prev, id, data) ==
    [i \in 1..Len(prev) |-> IF prev[i].id = id THEN data ELSE prev[i]]

\* faulty variant: the entry is taken out of the cache before the error is looked at
UpdateEstablishmentTryPatchFirst(f, id, resp) ==
    IF resp.err # "none"
    THEN Throw([f EXCEPT !.establishments =
                            SelectSeq(f.establishments, LAMBDA est : est.id # id)],
               resp.message)
    ELSE Return(
           addNotification(
             [f EXCEPT !.establishments =
                          [i \in 1..Len(f.establishments) |->
                              IF f.establishments[i].id = id
                              THEN resp.hotels[1] ELSE f.establishments[i]]],
             "success"),
           RetRecord(resp))

\* updateEstablishment, lines 121-132
UpdateEstablishmentTry(f, id, resp) ==
    IF resp.err # "none" THEN Throw(f, resp.message)
    ELSE Return(
           addNotification(
             [f EXCEPT !.establishments =
                          MapReplace(f.establishments, id, resp.hotels[1])],
             "success"),
           RetRecord(resp))

\* updateEstablishment, lines 133-137
UpdateEstablishmentCatch(f) ==
    IF f.thrown THEN Return(addNotification(Caught(f), "warning"), RetNull)
    ELSE f

UpdateEstablishmentAfterAwait(f, id, resp) ==
    UpdateEstablishmentCatch(UpdateEstablishmentTry(f, id, resp))

\* prev.filter(est => est.id !== id)
FilterOut(prev, id) == SelectSeq(prev, LAMBDA est : est.id # id)

\* faulty variant: active reservations do not stop the delete
DeleteEstablishmentGuardOff(f, resp) ==
    IF resp.err # "none" THEN Throw(f, resp.message) ELSE f

\* deleteEstablishment, lines 150-157: after the reservations query
DeleteEstablishmentGuard(f, resp) ==
    IF resp.err # "none" THEN Throw(f, resp.message)
    ELSE IF ~resp.isNull /\ Len(resp.reservations) > 0
         THEN Return(addNotification(f, "warning"), RetFalse)
         ELSE f

\* deleteEstablishment, lines 164-173: after the delete call
DeleteEstablishmentTry(f, id, resp) ==
    IF resp.err # "none" THEN Throw(f, resp.message)
    ELSE Return(
           addNotification(
             [f EXCEPT !.establishments = FilterOut(f.establishments, id)],
             "success"),
           RetTrue)

\* faulty variant: the catch reports the delete as done
DeleteEstablishmentCatchTrue(f) ==
    IF f.thrown THEN Return(addNotification(Caught(f), "warning"), RetTrue)
    ELSE f

\* deleteEstablishment, lines 174-178
DeleteEstablishmentCatch(f) ==
    IF f.thrown THEN Return(addNotification(Caught(f), "warning"), RetFalse)
    ELSE f

DeleteEstablishmentAfterReservations(f, resp) ==
    DeleteEstablishmentCatch(DeleteEstablishmentGuard(f, resp))

DeleteEstablishmentAfterAwait(f, id, resp) ==
    DeleteEstablishmentCatch(DeleteEstablishmentTry(f, id, resp))

\* faulty variant: the rate is cut, not rounded, to two decimals
Round2PercentTruncated(occupees, total) == (occupees * 10000) \div total

\* Math.round(x * 100) / 100 of (occupees / total) * 100, in hundredths
Round2Percent(occupees, total) ==
    (2 * occupees * 10000 + total) \div (2 * total)

\* updateEstablishmentStats, lines 234-243: the fields handed to update
StatsForm(resp) ==
    LET rooms == IF resp.isNull THEN <<>> ELSE resp.rooms
        chambres_total == Len(rooms)
        chambres_occupees ==
            Len(SelectSeq(rooms, LAMBDA statut : statut = "occupee"))
        taux_occupation ==
            IF chambres_total > 0
            THEN Round2Percent(chambres_occupees, chambres_total)
            ELSE 0
    IN  Form(<<>>, <<chambres_total>>, <<chambres_occupees>>,
             <<taux_occupation>>)

\* updateEstablishmentStats, lines 230-232: after the rooms query
UpdateEstablishmentStatsTry(f, resp) ==
    IF resp.err # "none" THEN Throw(f, resp.message) ELSE f

\* updateEstablishmentStats, lines 245-247
UpdateEstablishmentStatsCatch(f) ==
    IF f.thrown THEN Return(Caught(f), RetVoid) ELSE f

UpdateEstablishmentStatsAfterRooms(f, resp) ==
    UpdateEstablishmentStatsCatch(UpdateEstablishmentStatsTry(f, resp))

\* updateEstablishmentStats, lines 239-247: await updateEstablishment(...)
UpdateEstablishmentStatsAfterAwait(f, id, resp) ==
    LET g == UpdateEstablishmentAfterAwait(f, id, resp)
    IN  UpdateEstablishmentStatsCatch(
            IF g.thrown THEN g ELSE Return(g, RetVoid))

-----------------------------------------------------------------------------
(* State *)

Task(op, call, id, formData) ==
    [op |-> op, call |-> call, pc |-> "sent", id |-> id,
     formData |-> formData, resp |-> NoResp]

Replied(t, resp) == [t EXCEPT !.pc = "replied", !.resp = resp]

\* the function's frame over the current React state
Frame ==
    [establishments |-> establishments, loading |-> loading, error |-> error,
     notifs |-> <<>>, thrown |-> FALSE, err |-> "", ret |-> RetNone]

\* rows the remote table may hold when the hook is mounted
InitRemotes == {{Hotel(1, "b", 0, 0, 0)}}

\* useState initial values, lines 29-31; the effect has not run yet
Init ==
    /\ phase = "constructed"
    /\ establishments = <<>>
    /\ loading = TRUE
    /\ error = NoError
    /\ remote \in InitRemotes
    /\ nextId = Cardinality(remote) + 1
    /\ events = 0
    /\ tasks = EmptyBag
    /\ started = 0
    /\ gatewayFailed = FALSE
    /\ last = Other

\* the React state after a function's step
Commit(f) ==
    /\ establishments' = f.establishments
    /\ loading' = f.loading
    /\ error' = f.error

\* a function is called: it runs up to its first await
Begin(op, call, id, formData) ==
    /\ started < MaxOps
    /\ tasks' = tasks (+) SetToBag({Task(op, call, id, formData)})
    /\ started' = started + 1
    /\ last' = Other

\* fetchEstablishments, lines 36-43
BeginFetchEstablishments ==
    /\ Begin("fetchEstablishments", "list", 0, NoForm)
    /\ loading' = TRUE
    /\ error' = NoError
    /\ UNCHANGED <<establishments, remote, nextId, gatewayFailed>>

\* useEffect, lines 251-264: first fetch, then the subscription opens
Activate ==
    /\ phase = "constructed"
    /\ phase' = "active"
    /\ BeginFetchEstablishments
    /\ UNCHANGED events

\* faulty variant: the cleanup leaves the subscription open, the events
\* already published are still delivered
DeactivateNoUnsubscribe ==
    /\ phase = "active"
    /\ phase' = "released"
    /\ last' = Other
    /\ UNCHANGED <<establishments, loading, error, remote, nextId, events,
                   tasks, started, gatewayFailed>>

\* useEffect cleanup, lines 266-268: subscription.unsubscribe()
Deactivate ==
    /\ phase = "active"
    /\ phase' = "released"
    /\ events' = 0
    /\ last' = Other
    /\ UNCHANGED <<establishments, loading, error, remote, nextId, tasks,
                   started, gatewayFailed>>

\* the subscription callback, lines 259-262: it runs for every event the
\* subscription delivers and has no guard of its own
ChangeEvent ==
    /\ events > 0
    /\ events' = events - 1
    /\ BeginFetchEstablishments
    /\ UNCHANGED phase

\* the caller's operations, lines 271-283
CallFetchEstablishments ==
    /\ phase = "active"
    /\ BeginFetchEstablishments
    /\ UNCHANGED <<phase, events>>

CallOther(op, call, id, formData) ==
    /\ phase = "active"
    /\ Begin(op, call, id, formData)
    /\ UNCHANGED <<phase, establishments, loading, error, remote, nextId,
                   events, gatewayFailed>>

\* fetchEstablishmentById, lines 60-66
CallFetchEstablishmentById(id) ==
    CallOther("fetchEstablishmentById", "single", id, NoForm)

\* form data of the caller; one carries an occupancy field of its own
CreateForms ==
    {Form(<<"a">>, <<>>, <<>>, <<>>), Form(<<"b">>, <<5>>, <<>>, <<>>)}
UpdateForms == {Form(<<n>>, <<>>, <<>>, <<>>) : n \in Names}

\* createEstablishment, lines 81-92
CallCreateEstablishment(formData) ==
    CallOther("createEstablishment", "insert", 0, InsertPayload(formData))

\* updateEstablishment, lines 112-119
CallUpdateEstablishment(id, formData) ==
    CallOther("updateEstablishment", "update", id, formData)

\* deleteEstablishment, lines 141-148
CallDeleteEstablishment(id) ==
    CallOther("deleteEstablishment", "reservations", id, NoForm)

\* updateEstablishmentStats, lines 222-228
CallUpdateEstablishmentStats(id) ==
    CallOther("updateEstablishmentStats", "rooms", id, NoForm)

-----------------------------------------------------------------------------
(* The gateway (supabase) answers a call *)

InFlight == BagToSet(tasks)

\* calls on tables the model does not hold
ExternalCalls == {"reservations", "rooms"}

Sent(t, call) == t \in InFlight /\ t.pc = "sent" /\ t.call = call

Answer(t, resp) ==
    /\ tasks' = (tasks (-) SetToBag({t})) (+) SetToBag({Replied(t, resp)})
    /\ last' = Other
    /\ UNCHANGED <<phase, establishments, loading, error, started>>

\* a change of the hotels table is published to an open subscription
Publish == events' = IF phase = "active" THEN events + 1 ELSE events

\* the hotels query of fetchEstablishments, lines 40-43
GatewayList(t) ==
    /\ Sent(t, "list")
    /\ \E resp \in {OkHotels(ListHotels(remote))}
                     \cup (IF remote = {} THEN {OkNull} ELSE {}) :
           Answer(t, resp)
    /\ UNCHANGED <<remote, nextId, events, gatewayFailed>>

\* .eq('id', id).single() of fetchEstablishmentById, lines 62-66
GatewaySingle(t) ==
    /\ Sent(t, "single")
    /\ IF RowsWithId(remote, t.id) # {}
       THEN /\ Answer(t, OkHotels(ListHotels(RowsWithId(remote, t.id))))
            /\ UNCHANGED gatewayFailed
       ELSE /\ Answer(t, Failed("error", NoRows))
            /\ gatewayFailed' = TRUE
    /\ UNCHANGED <<remote, nextId, events>>

\* .insert([...]).select().single() of createEstablishment, lines 83-92
GatewayInsert(t) ==
    /\ Sent(t, "insert")
    /\ nextId <= MaxId
    /\ LET row == InsertedRow(t.formData, nextId)
       IN  /\ remote' = remote \cup {row}
           /\ Answer(t, OkHotels(<<row>>))
    /\ nextId' = nextId + 1
    /\ Publish
    /\ UNCHANGED gatewayFailed

\* .update(formData).eq('id', id).select().single(), lines 114-119
GatewayUpdate(t) ==
    /\ Sent(t, "update")
    /\ IF RowsWithId(remote, t.id) # {}
       THEN LET old == CHOOSE h \in remote : h.id = t.id
                row == UpdatedRow(old, t.formData)
            IN  /\ remote' = (remote \ {old}) \cup {row}
                /\ Answer(t, OkHotels(<<row>>))
                /\ Publish
                /\ UNCHANGED gatewayFailed
       ELSE /\ Answer(t, Failed("error", NoRows))
            /\ gatewayFailed' = TRUE
            /\ UNCHANGED <<remote, events>>
    /\ UNCHANGED nextId

\* .delete().eq('id', id) of deleteEstablishment, lines 159-162
GatewayDelete(t) ==
    /\ Sent(t, "delete")
    /\ remote' = remote \ RowsWithId(remote, t.id)
    /\ Answer(t, OkNull)
    /\ IF RowsWithId(remote, t.id) # {} THEN Publish ELSE UNCHANGED events
    /\ UNCHANGED <<nextId, gatewayFailed>>

\* a call on the hotels table fails; how the failure reaches the function
\* (an error in the result, a rejected promise) shows when it resumes
GatewayError(t) ==
    /\ t \in InFlight
    /\ t.pc = "sent"
    /\ t.call \notin ExternalCalls
    /\ Answer(t, Failed("failed", ""))
    /\ gatewayFailed' = TRUE
    /\ UNCHANGED <<remote, nextId, events>>

\* ids of the CONFIRMEE / EN_COURS reservations a query may find
ReservationLists == {<<>>, <<7>>}
ReservationReplies ==
    {OkNull} \cup {OkReservations(rs) : rs \in ReservationLists}

\* statuts of the rooms a query may find
RoomLists == {<<>>, <<"libre">>, <<"occupee", "libre", "occupee">>}
RoomReplies == {OkNull} \cup {OkRooms(rs) : rs \in RoomLists}

\* a failure as the function sees it: { error } in the result, or the
\* awaited promise rejects
Failures == {Failed(kind, msg) : kind \in {"error", "thrown"}, msg \in ErrMsgs}

\* the replies a resuming function may find.  The reservations and rooms
\* tables are outside the model: the reply of a query on them is drawn here
Delivered(t) ==
    IF t.call = "reservations" THEN ReservationReplies \cup Failures
    ELSE IF t.call = "rooms" THEN RoomReplies \cup Failures
    ELSE IF t.resp.err = "failed" THEN Failures
    ELSE {t.resp}

-----------------------------------------------------------------------------
(* A function resumes after its await *)

Got(t, op, call) ==
    /\ t \in InFlight
    /\ t.op = op
    /\ t.call = call
    /\ t.pc = "replied" \/ call \in ExternalCalls

Resumed(t, resp, f, at) ==
    /\ Commit(f)
    /\ last' = Step(t.op, t.id, t.call, at, resp, establishments, f)
    /\ gatewayFailed' = (gatewayFailed \/ resp.err # "none")
    /\ UNCHANGED <<phase, remote, nextId, events, started>>

\* the function runs to its end
Finish(t, resp, f) ==
    /\ Resumed(t, resp, f, "end")
    /\ tasks' = tasks (-) SetToBag({t})

\* the function issues its next gateway call and awaits it
Continue(t, resp, f, call, formData) ==
    /\ Resumed(t, resp, f, "await")
    /\ tasks' = (tasks (-) SetToBag({t}))
                (+) SetToBag({Task(t.op, call, t.id, formData)})

\* fetchEstablishments, lines 45-57
ResumeFetchEstablishments(t) ==
    /\ Got(t, "fetchEstablishments", "list")
    /\ \E resp \in Delivered(t) :
           Finish(t, resp, FetchEstablishmentsAfterAwait(Frame, resp))

\* fetchEstablishmentById, lines 68-78
ResumeFetchEstablishmentById(t) ==
    /\ Got(t, "fetchEstablishmentById", "single")
    /\ \E resp \in Delivered(t) :
           Finish(t, resp, FetchEstablishmentByIdAfterAwait(Frame, resp))

\* createEstablishment, lines 94-109
ResumeCreateEstablishment(t) ==
    /\ Got(t, "createEstablishment", "insert")
    /\ \E resp \in Delivered(t) :
           Finish(t, resp, CreateEstablishmentAfterAwait(Frame, resp))

\* updateEstablishment, lines 121-138
ResumeUpdateEstablishment(t) ==
    /\ Got(t, "updateEstablishment", "update")
    /\ \E resp \in Delivered(t) :
           Finish(t, resp, UpdateEstablishmentAfterAwait(Frame, t.id, resp))

\* deleteEstablishment, lines 150-162 and 174-178
ResumeDeleteEstablishmentReservations(t) ==
    /\ Got(t, "deleteEstablishment", "reservations")
    /\ \E resp \in Delivered(t) :
           LET f == DeleteEstablishmentAfterReservations(Frame, resp)
           IN  IF Returned(f) \/ f.thrown
               THEN Finish(t, resp, f)
               ELSE Continue(t, resp, f, "delete", NoForm)

\* deleteEstablishment, lines 164-178
ResumeDeleteEstablishment(t) ==
    /\ Got(t, "deleteEstablishment", "delete")
    /\ \E resp \in Delivered(t) :
           Finish(t, resp, DeleteEstablishmentAfterAwait(Frame, t.id, resp))

\* updateEstablishmentStats, lines 230-243 and 245-247
ResumeUpdateEstablishmentStatsRooms(t) ==
    /\ Got(t, "updateEstablishmentStats", "rooms")
    /\ \E resp \in Delivered(t) :
           LET f == UpdateEstablishmentStatsAfterRooms(Frame, resp)
           IN  IF Returned(f) \/ f.thrown
               THEN Finish(t, resp, f)
               ELSE Continue(t, resp, f, "update", StatsForm(resp))

\* updateEstablishmentStats, line 239 (updateEstablishment, lines 121-138)
ResumeUpdateEstablishmentStats(t) ==
    /\ Got(t, "updateEstablishmentStats", "update")
    /\ \E resp \in Delivered(t) :
           Finish(t, resp,
                  UpdateEstablishmentStatsAfterAwait(Frame, t.id, resp))

-----------------------------------------------------------------------------

\* ids the caller can have learnt: of the cache or of the remote table
KnownIds ==
    {establishments[i].id : i \in 1..Len(establishments)}
    \cup {h.id : h \in remote}

Next ==
    \/ Activate
    \/ Deactivate
    \/ ChangeEvent
    \/ CallFetchEstablishments
    \/ \E id \in KnownIds : CallFetchEstablishmentById(id)
    \/ \E formData \in CreateForms : CallCreateEstablishment(formData)
    \/ \E id \in KnownIds, formData \in UpdateForms :
           CallUpdateEstablishment(id, formData)
    \/ \E id \in KnownIds : CallDeleteEstablishment(id)
    \/ \E id \in KnownIds : CallUpdateEstablishmentStats(id)
    \/ \E t \in InFlight : GatewayList(t)
    \/ \E t \in InFlight : GatewaySingle(t)
    \/ \E t \in InFlight : GatewayInsert(t)
    \/ \E t \in InFlight : GatewayUpdate(t)
    \/ \E t \in InFlight : GatewayDelete(t)
    \/ \E t \in InFlight : GatewayError(t)
    \/ \E t \in InFlight : ResumeFetchEstablishments(t)
    \/ \E t \in InFlight : ResumeFetchEstablishmentById(t)
    \/ \E t \in InFlight : ResumeCreateEstablishment(t)
    \/ \E t \in InFlight : ResumeUpdateEstablishment(t)
    \/ \E t \in InFlight : ResumeDeleteEstablishmentReservations(t)
    \/ \E t \in InFlight : ResumeDeleteEstablishment(t)
    \/ \E t \in InFlight : ResumeUpdateEstablishmentStatsRooms(t)
    \/ \E t \in InFlight : ResumeUpdateEstablishmentStats(t)

Spec == Init /\ [][Next]_vars

\* ---- the derived views: searchEstablishments and getEstablishmentStats ----

\* longest cache the views are computed over
MaxCache == 3

\* a cached Hotel with the fields the views read: a text is a sequence of
\* characters, an optional field is <<>> or <<value>>, taux_occupation is in
\* hundredths of a percent
ViewHotel(i, n, v, a, g, s, ct, tx) ==
    [id |-> i, nom |-> n, ville |-> v, adresse |-> a, gestionnaire |-> g,
     statut |-> s, chambres_total |-> ct, taux_occupation |-> tx]

\* the cache entries the views are computed over
ViewHotels ==
    { ViewHotel(1, <<"A", "b">>, <<"c">>, <<"c">>, <<>>,
                "ACTIF", <<10>>, <<5000>>),
      ViewHotel(2, <<"c">>, <<"B", "a">>, <<"c">>, << <<"c", "A">> >>,
                "INACTIF", <<20>>, <<2500>>),
      ViewHotel(3, <<"c">>, <<"c">>, <<"D">>, << <<"a", "B">> >>,
                "ACTIF", <<0>>, <<0>>),
      ViewHotel(4, <<"c">>, <<"c">>, <<"c">>, << <<>> >>,
                "INACTIF", <<>>, <<>>),
      ViewHotel(5, <<"b">>, <<"c">>, <<"c">>, <<>>,
                "ACTIF", <<>>, <<1>>) }

\* the letters that have two cases
UpperCase == <<"A", "B", "C", "D">>
LowerCase == <<"a", "b", "c", "d">>

\* String.prototype.toLowerCase, character by character
LowerChar(c) ==
    IF \E i \in 1..Len(UpperCase) : UpperCase[i] = c
    THEN LowerCase[CHOOSE i \in 1..Len(UpperCase) : UpperCase[i] = c]
    ELSE c

toLowerCase(s) == [i \in 1..Len(s) |-> LowerChar(s[i])]

\* String.prototype.includes
includes(s, t) ==
    \E i \in 0..(Len(s) - Len(t)) : SubSeq(s, i + 1, i + Len(t)) = t

\* searchEstablishments, lines 187-192
QueryFilter(cache, searchTerm) ==
    SelectSeq(cache, LAMBDA est :
        \/ includes(toLowerCase(est.nom), searchTerm)
        \/ includes(toLowerCase(est.ville), searchTerm)
        \/ includes(toLowerCase(est.adresse), searchTerm)
        \/ /\ est.gestionnaire # <<>>
           /\ est.gestionnaire[1] # <<>>
           /\ includes(toLowerCase(est.gestionnaire[1]), searchTerm))

\* faulty variant: the entries' texts are compared as they are written
searchEstablishmentsCaseSensitive(cache, query, status) ==
    LET searchTerm == toLowerCase(query)
        afterQuery ==
            IF query # <<>>
            THEN SelectSeq(cache, LAMBDA est :
                     \/ includes(est.nom, searchTerm)
                     \/ includes(est.ville, searchTerm)
                     \/ includes(est.adresse, searchTerm)
                     \/ /\ est.gestionnaire # <<>>
                        /\ est.gestionnaire[1] # <<>>
                        /\ includes(est.gestionnaire[1], searchTerm))
            ELSE cache
    IN  IF status # <<>> /\ status[1] # "" /\ status[1] # "all"
        THEN SelectSeq(afterQuery, LAMBDA est : est.statut = status[1])
        ELSE afterQuery

\* searchEstablishments, lines 182-200: query is a text, status is <<>> when
\* the argument is left out and <<s>> otherwise
searchEstablishments(cache, query, status) ==
    LET afterQuery ==
            IF query # <<>>
            THEN QueryFilter(cache, toLowerCase(query))
            ELSE cache
    IN  IF status # <<>> /\ status[1] # "" /\ status[1] # "all"
        THEN SelectSeq(afterQuery, LAMBDA est : est.statut = status[1])
        ELSE afterQuery

\* field || 0
OrZero(field) == IF field = <<>> THEN 0 ELSE field[1]

\* Array.prototype.reduce with (sum, est) => sum + values[est], from index i
RECURSIVE Reduce(_, _, _)
Reduce(values, i, sum) ==
    IF i > Len(values) THEN sum
    ELSE Reduce(values, i + 1, sum + values[i])

\* Math.round(mean * 100) / 100 for mean = sum / total, sum and the result in
\* hundredths
MathRound2(sum, total) == (2 * sum + total) \div (2 * total)

\* faulty variant: the mean is taken over the entries that have a rate
getEstablishmentStatsOverPresent(cache) ==
    LET total == Len(cache)
        rated == Len(SelectSeq(cache, LAMBDA est : est.taux_occupation # <<>>))
        tauxSum ==
            Reduce([i \in 1..total |-> OrZero(cache[i].taux_occupation)], 1, 0)
    IN  [total |-> total,
         actifs |-> Len(SelectSeq(cache, LAMBDA est : est.statut = "ACTIF")),
         inactifs |->
             Len(SelectSeq(cache, LAMBDA est : est.statut = "INACTIF")),
         totalChambres |->
             Reduce([i \in 1..total |-> OrZero(cache[i].chambres_total)], 1, 0),
         tauxOccupationMoyen |->
             IF rated > 0 THEN MathRound2(tauxSum, rated) ELSE 0]

\* getEstablishmentStats, lines 203-219
getEstablishmentStats(cache) ==
    LET total == Len(cache)
        tauxSum ==
            Reduce([i \in 1..total |-> OrZero(cache[i].taux_occupation)], 1, 0)
    IN  [total |-> total,
         actifs |-> Len(SelectSeq(cache, LAMBDA est : est.statut = "ACTIF")),
         inactifs |->
             Len(SelectSeq(cache, LAMBDA est : est.statut = "INACTIF")),
         totalChambres |->
             Reduce([i \in 1..total |-> OrZero(cache[i].chambres_total)], 1, 0),
         tauxOccupationMoyen |->
             IF total > 0 THEN MathRound2(tauxSum, total) ELSE 0]

\* what a call of a view was given, the cache it ran over and what it returned
ViewStep(op, query, status, result) ==
    [op |-> op, query |-> query, status |-> status,
     before |-> establishments, result |-> result]

\* the arguments the caller passes to searchEstablishments
Queries == {<<>>, <<"a">>, <<"A", "B">>, <<"b", "a">>, <<"d">>}
Statuses == {<<>>, <<"">>, <<"all">>, <<"ACTIF">>, <<"INACTIF">>}

\* the caches of at most MaxCache entries
Caches == UNION {[1..n -> ViewHotels] : n \in 0..MaxCache}

CallSearchEstablishments ==
    \E query \in Queries, status \in Statuses :
        /\ last' = ViewStep("searchEstablishments", query, status,
                            searchEstablishments(establishments, query, status))
        /\ UNCHANGED <<phase, establishments, loading, error, remote, nextId,
                       events, tasks, started, gatewayFailed>>

CallGetEstablishmentStats ==
    /\ last' = ViewStep("getEstablishmentStats", <<>>, <<>>,
                        getEstablishmentStats(establishments))
    /\ UNCHANGED <<phase, establishments, loading, error, remote, nextId,
                   events, tasks, started, gatewayFailed>>

\* the hook is mounted, nothing is in flight and the cache holds any list
InitViews ==
    /\ phase = "active"
    /\ establishments \in Caches
    /\ loading = FALSE
    /\ error = NoError
    /\ remote = {}
    /\ nextId = 1
    /\ events = 0
    /\ tasks = EmptyBag
    /\ started = 0
    /\ gatewayFailed = FALSE
    /\ last = Other

NextViews ==
    \/ CallSearchEstablishments
    \/ CallGetEstablishmentStats

SpecViews == InitViews /\ [][NextViews]_vars

-----------------------------------------------------------------------------
(* Properties *)

CacheIds == {establishments[i].id : i \in 1..Len(establishments)}

Sorted(seq) ==
    \A i \in 1..(Len(seq) - 1) : Rank(seq[i].nom) <= Rank(seq[i + 1].nom)

\* the latest step was a fetchEstablishments call running to its end
RefreshEnded == last.op = "fetchEstablishments" /\ last.at = "end"
RefreshSucceeded == RefreshEnded /\ last.resp.err = "none"
RefreshFailed == RefreshEnded /\ last.resp.err # "none"

\* the data a successful reply carries (data || [])
DataOrEmpty(resp) == IF resp.isNull THEN <<>> ELSE resp.hotels

\* C1: no two entries of the cache share an id, in every reachable state.
C1_IdUniqueness ==
    \A i, j \in 1..Len(establishments) :
        i # j => establishments[i].id # establishments[j].id

\* the controller is active, no gateway call has failed, every change event
\* is delivered and every call has completed
Quiescent ==
    /\ phase = "active"
    /\ ~gatewayFailed
    /\ events = 0
    /\ tasks = EmptyBag

\* the cache holds exactly the rows of the remote table, each once
CacheIsRemote ==
    /\ Len(establishments) = Cardinality(remote)
    /\ \A h \in remote : \E i \in 1..Len(establishments) : establishments[i] = h

\* C2: once nothing is in flight (no call, no undelivered change event) while
\* the controller is active and no gateway call failed, the cache holds
\* exactly the records of the remote table.
C2_EventualConsistency == Quiescent => CacheIsRemote

\* C3: right after a successful fetchEstablishments the cache is exactly the
\* sequence the gateway returned for that call (empty when it returned no
\* data); nothing of the previous snapshot is kept.
C3_RefreshReplaces == RefreshSucceeded => establishments = DataOrEmpty(last.resp)

\* a successful refresh dropped an entry of the previous snapshot
C3_Witness ==
    /\ RefreshSucceeded
    /\ \E i \in 1..Len(last.before) : last.before[i].id \notin CacheIds

\* C4: a fetchEstablishments whose list call failed leaves the cache as it
\* was, records the (non-empty) error message, emits exactly one warning and
\* starts no further gateway call.
C4_RefreshFailure ==
    [][RefreshFailed' =>
          /\ establishments' = establishments
          /\ error' = last'.resp.message
          /\ error' \notin {NoError, ""}
          /\ last'.notifs = <<"warning">>
          /\ started' = started
          /\ \A t \in BagToSet(tasks') : CopiesIn(t, tasks') <= CopiesIn(t, tasks)
      ]_vars

\* a refresh failed over a cache that was not empty
C4_Witness ==
    /\ RefreshFailed
    /\ establishments # <<>>
    /\ error \in ErrMsgs

\* the latest step handled a reservations reply with at least one row
GuardHit ==
    /\ last.op = "deleteEstablishment"
    /\ last.resp.err = "none"
    /\ ~last.resp.isNull
    /\ Len(last.resp.reservations) > 0

\* C5: when the reservations query of a delete returns at least one active
\* reservation, the delete returns false, emits a warning, issues no gateway
\* delete call and leaves the cache (and the remote table) as they were.
C5_DeleteGuard ==
    [][GuardHit' =>
          /\ last'.at = "end"
          /\ last'.ret = RetFalse
          /\ last'.notifs = <<"warning">>
          /\ establishments' = establishments
          /\ remote' = remote
          /\ \A t \in BagToSet(tasks') :
                 t.call = "delete" => CopiesIn(t, tasks') <= CopiesIn(t, tasks)
      ]_vars

\* a delete of an establishment that is in the cache was refused
C5_Witness ==
    /\ GuardHit
    /\ last.id \in CacheIds

Mutations == {"createEstablishment", "updateEstablishment", "deleteEstablishment"}

\* the latest step handled the failure of a gateway call of a mutation
MutationFailed == last.op \in Mutations /\ last.resp.err # "none"

\* a mutation was called or went on to its next gateway call in this step
MutationAwaits ==
    \E t \in BagToSet(tasks') :
        /\ t.op \in Mutations
        /\ t.pc = "sent"
        /\ CopiesIn(t, tasks') > CopiesIn(t, tasks)

\* C6: create, update and delete apply no patch when their gateway call
\* fails: the step that handles the failure leaves the cache as it found it,
\* emits one warning and no success and returns the sentinel (null, null,
\* false); the steps that only issue a call leave the cache alone too.
C6_FailureIsolation ==
    [][/\ MutationFailed' =>
             /\ establishments' = establishments
             /\ last'.at = "end"
             /\ last'.notifs = <<"warning">>
             /\ last'.ret = IF last'.op = "deleteEstablishment"
                            THEN RetFalse ELSE RetNull
       /\ MutationAwaits => establishments' = establishments
      ]_vars

\* an update of an establishment that is in the cache failed
C6_Witness ==
    /\ MutationFailed
    /\ last.op = "updateEstablishment"
    /\ last.id \in CacheIds

\* the values each function may return
Returns(op) ==
    CASE op = "fetchEstablishments" -> {"void"}
      [] op = "fetchEstablishmentById" -> {"record", "null"}
      [] op = "createEstablishment" -> {"record", "null"}
      [] op = "updateEstablishment" -> {"record", "null"}
      [] op = "deleteEstablishment" -> {"true", "false"}
      [] op = "updateEstablishmentStats" -> {"void"}
      [] OTHER -> {"none"}

\* C7: whatever a gateway call answers, no function ends with an error
\* raised to its caller: each returns a value of its return type, and
\* fetchEstablishmentById returns null on a not-found or error reply.
C7_NoErrorEscapes ==
    /\ ~last.thrown
    /\ last.at = "end" => last.ret.k \in Returns(last.op)
    /\ (last.op = "fetchEstablishmentById" /\ last.resp.err # "none")
           => last.ret = RetNull

\* fetchEstablishmentById found no row and returned null
C7_Witness ==
    /\ last.op = "fetchEstablishmentById"
    /\ last.resp.err = "error"
    /\ last.resp.message = NoRows
    /\ last.ret = RetNull

\* C8 as stated: whenever a fetchEstablishments call completes, the cache is
\* sorted by name ascending.
C8_SortedAfterAnyRefresh == RefreshEnded => Sorted(establishments)

\* C8 amended: whenever a fetchEstablishments call completes successfully,
\* the cache is sorted by name ascending.
C8_SortedAfterSuccessfulRefresh == RefreshSucceeded => Sorted(establishments)

\* a successful refresh replaced a cache an append had left out of order
C8_Witness ==
    /\ RefreshSucceeded
    /\ ~Sorted(last.before)
    /\ Len(establishments) >= 2

\* C9: loading is true whenever a fetchEstablishments call is in flight.
C9_LoadingWhileInFlight ==
    (\E t \in InFlight : t.op = "fetchEstablishments") => loading

\* C10: right after a fetchEstablishments call completes successfully, no
\* error message is recorded.
C10_ErrorClearedOnSuccess == RefreshSucceeded => error = NoError

\* the latest step was the end of a create, update or delete whose gateway
\* call succeeded
CreateSucceeded ==
    last.op = "createEstablishment" /\ last.resp.err = "none"
UpdateSucceeded ==
    last.op = "updateEstablishment" /\ last.resp.err = "none"
DeleteSucceeded ==
    /\ last.op = "deleteEstablishment"
    /\ last.call = "delete"
    /\ last.resp.err = "none"

ZeroOccupancy(r) ==
    r.chambres_total = 0 /\ r.chambres_occupees = 0 /\ r.taux_occupation = 0

\* C11: whatever the form data carries, the record handed to the gateway
\* insert has the three occupancy fields at 0, and on success the record
\* returned and appended to the cache is the gateway's record with them.
C11_CreateInitializesOccupancy ==
    /\ \A t \in InFlight :
           t.call = "insert" =>
               /\ t.formData.chambres_total = <<0>>
               /\ t.formData.chambres_occupees = <<0>>
               /\ t.formData.taux_occupation = <<0>>
    /\ CreateSucceeded =>
           /\ Len(last.resp.hotels) = 1
           /\ ZeroOccupancy(last.resp.hotels[1])
           /\ last.ret = Ret("record", last.resp.hotels)
           /\ establishments = Append(last.before, last.resp.hotels[1])

\* the create whose form data carried chambres_total = 5 (the form named
\* "b" of CreateForms) succeeded
C11_Witness ==
    /\ CreateSucceeded
    /\ last.resp.hotels[1].nom = "b"
    /\ \E formData \in CreateForms :
           formData.nom = <<"b">> /\ formData.chambres_total = <<5>>

\* C12: a successful update replaces, in place, the cache entries whose id
\* is the updated id by the gateway's record; the other entries, the order
\* and the length stay, and with no such entry the cache is unchanged; the
\* call returns the updated record either way.
C12_UpdatePatch ==
    UpdateSucceeded =>
        /\ last.ret = Ret("record", last.resp.hotels)
        /\ Len(establishments) = Len(last.before)
        /\ \A i \in 1..Len(last.before) :
               establishments[i] =
                   IF last.before[i].id = last.id
                   THEN last.resp.hotels[1] ELSE last.before[i]
        /\ (\A i \in 1..Len(last.before) : last.before[i].id # last.id)
               => establishments = last.before

\* an update changed one entry of a cache of two and left the other
C12_Witness ==
    /\ UpdateSucceeded
    /\ Len(last.before) = 2
    /\ \E i, j \in 1..2 :
           /\ last.before[i].id = last.id
           /\ establishments[i] # last.before[i]
           /\ last.before[j].id # last.id

\* an update of an id the cache does not hold returned the record
C12_WitnessNoMatch ==
    /\ UpdateSucceeded
    /\ last.before # <<>>
    /\ \A i \in 1..Len(last.before) : last.before[i].id # last.id

\* the latest step handled a successful rooms reply of updateEstablishmentStats
RoomsRead ==
    /\ last.op = "updateEstablishmentStats"
    /\ last.call = "rooms"
    /\ last.resp.err = "none"

RoomsOf(resp) == IF resp.isNull THEN <<>> ELSE resp.rooms
Occupied(rooms) == Cardinality({i \in 1..Len(rooms) : rooms[i] = "occupee"})

\* r hundredths of a percent is occupied / total * 100 rounded to two
\* decimals (halves go up)
IsRound2(r, occupied, total) ==
    /\ 2 * total * r - 20000 * occupied > -total
    /\ 2 * total * r - 20000 * occupied <= total

\* formData carries the three occupancy fields of these rooms and no other
IsStatsOf(formData, rooms) ==
    /\ formData.nom = <<>>
    /\ formData.chambres_total = <<Len(rooms)>>
    /\ formData.chambres_occupees = <<Occupied(rooms)>>
    /\ Occupied(rooms) <= Len(rooms)
    /\ Len(formData.taux_occupation) = 1
    /\ IF Len(rooms) > 0
       THEN IsRound2(formData.taux_occupation[1], Occupied(rooms), Len(rooms))
       ELSE formData.taux_occupation[1] = 0

\* C13: for the rooms a query returns, updateEstablishmentStats computes
\* total, occupied and the rate rounded to two decimals (0 without rooms)
\* and issues exactly one update call, for its id, with these three fields
\* and no other.
C13_OccupancyRecompute ==
    [][RoomsRead' =>
          /\ last'.at = "await"
          /\ \E u \in BagToSet(tasks') :
                 /\ u.op = "updateEstablishmentStats"
                 /\ u.call = "update"
                 /\ u.pc = "sent"
                 /\ u.id = last'.id
                 /\ IsStatsOf(u.formData, RoomsOf(last'.resp))
                 /\ CopiesIn(u, tasks') = CopiesIn(u, tasks) + 1
                 /\ \A t \in BagToSet(tasks') \ {u} :
                        CopiesIn(t, tasks') <= CopiesIn(t, tasks)
      ]_vars

\* two of three rooms are occupied: the update carries 3, 2 and 66.67
C13_Witness ==
    /\ RoomsRead
    /\ Len(RoomsOf(last.resp)) = 3
    /\ Occupied(RoomsOf(last.resp)) = 2
    /\ \E u \in InFlight :
           /\ u.call = "update"
           /\ u.id = last.id
           /\ u.formData = Form(<<>>, <<3>>, <<2>>, <<6667>>)

\* the latest step was the end of an updateEstablishmentStats call that
\* failed: its rooms query failed or its update did not succeed
StatsFailed ==
    /\ last.op = "updateEstablishmentStats"
    /\ last.at = "end"
    /\ last.resp.err # "none"

\* C14: a failing updateEstablishmentStats emits no notification, leaves
\* the cache unchanged and surfaces nothing to its caller.
C14_StatsSilentOnFailure ==
    StatsFailed =>
        /\ last.notifs = <<>>
        /\ establishments = last.before
        /\ ~last.thrown
        /\ last.ret = RetVoid

\* the fetchEstablishments calls of a bag that await their list
RefreshesSent(bag) ==
    CopiesIn(Task("fetchEstablishments", "list", 0, NoForm), bag)

\* this step starts one fetchEstablishments call
RefreshStarts ==
    /\ RefreshesSent(tasks') = RefreshesSent(tasks) + 1
    /\ started' = started + 1

\* C15: activation starts exactly one fetchEstablishments and opens the
\* subscription; a change event is published to the hook, and starts a
\* fetchEstablishments, only while the hook is active; once the
\* subscription is released no event is delivered and no fetchEstablishments
\* starts, while the calls in flight still run to their end.
C15_SubscriptionLifecycle ==
    [][/\ (phase = "constructed" /\ phase' # phase) =>
              phase' = "active" /\ RefreshStarts
       /\ events' > events => phase = "active" /\ phase' = "active"
       /\ (events' < events /\ phase' = phase) =>
              phase = "active" /\ events' = events - 1 /\ RefreshStarts
       /\ phase = "released" =>
              /\ phase' = "released"
              /\ events' = 0
              /\ RefreshesSent(tasks') <= RefreshesSent(tasks)
              /\ started' = started
      ]_vars

\* a fetchEstablishments that was in flight when the subscription was
\* released has run to its end and filled the cache
C15_Witness ==
    /\ phase = "released"
    /\ RefreshSucceeded
    /\ establishments # <<>>

\* the cache after the patch of a successful create, update or delete,
\* applied to the cache the step found
Patched(before, op, id, resp) ==
    CASE op = "createEstablishment" -> Append(before, resp.hotels[1])
      [] op = "updateEstablishment" ->
             [i \in 1..Len(before) |->
                 IF before[i].id = id THEN resp.hotels[1] ELSE before[i]]
      [] op = "deleteEstablishment" ->
             SelectSeq(before, LAMBDA est : est.id # id)

MutationSucceeded == CreateSucceeded \/ UpdateSucceeded \/ DeleteSucceeded

\* C18: the patch of a successful create, update or delete is applied to
\* the cache as the step that handles the reply finds it (a snapshot a
\* fetchEstablishments wrote meanwhile included): the record is appended,
\* the entries with the id are replaced or removed, and every other entry
\* stays where it is.
C18_PatchOnCurrentCache ==
    MutationSucceeded =>
        /\ establishments = Patched(last.before, last.op, last.id, last.resp)
        /\ \A i \in 1..Len(last.before) :
               last.before[i].id # last.id =>
                   \E j \in 1..Len(establishments) :
                       establishments[j] = last.before[i]

\* a create was patched onto a snapshot that a fetchEstablishments wrote
\* while the create was in flight: the snapshot already lists the new row
C18_Witness ==
    /\ CreateSucceeded
    /\ \E i \in 1..Len(last.before) : last.before[i] = last.resp.hotels[1]
    /\ Len(establishments) = Len(last.before) + 1

\* the gateway delete calls for an id that a bag holds unanswered
DeletesSent(bag, id) ==
    CopiesIn(Task("deleteEstablishment", "delete", id, NoForm), bag)

\* this step issues a gateway delete call
DeleteIssued ==
    \E t \in BagToSet(tasks') :
        t.call = "delete" /\ t.pc = "sent"
        /\ CopiesIn(t, tasks') > CopiesIn(t, tasks)

\* the reply of a reservations query that found no active reservation
NoActiveReservation(resp) ==
    resp.err = "none" /\ (resp.isNull \/ Len(resp.reservations) = 0)

\* C19: a delete issues its gateway delete call only in the step that
\* handles its own reservations reply, when that reply is a success without
\* rows, and once; the step that handles the delete reply ends the call; it
\* returns true exactly when the gateway delete succeeded, and then every
\* cache entry with the id is removed, the others keep their order and one
\* success is notified; a failed reservations query returns false with no
\* delete call.
C19_DeleteOutcome ==
    [][/\ DeleteIssued =>
              /\ last'.op = "deleteEstablishment"
              /\ last'.call = "reservations"
              /\ last'.at = "await"
              /\ NoActiveReservation(last'.resp)
              /\ DeletesSent(tasks', last'.id) = DeletesSent(tasks, last'.id) + 1
       /\ (last'.op = "deleteEstablishment" /\ last'.call = "delete") =>
              last'.at = "end"
       /\ (last'.op = "deleteEstablishment" /\ last'.at = "end") =>
              /\ last'.ret \in {RetTrue, RetFalse}
              /\ last'.ret = RetTrue <=> DeleteSucceeded'
       /\ DeleteSucceeded' =>
              /\ establishments' =
                     SelectSeq(establishments, LAMBDA est : est.id # last'.id)
              /\ last'.notifs = <<"success">>
       /\ (/\ last'.op = "deleteEstablishment"
           /\ last'.call = "reservations"
           /\ last'.resp.err # "none") =>
              last'.at = "end" /\ last'.ret = RetFalse
      ]_vars

\* a delete returned true and took one of two entries out of the cache
C19_Witness ==
    /\ DeleteSucceeded
    /\ last.ret = RetTrue
    /\ Len(last.before) = 2
    /\ Len(establishments) = 1
    /\ establishments[1].id # last.id

\* the latest step was a successful delete that took its id out of the cache
DeleteRemoved ==
    /\ DeleteSucceeded
    /\ last.ret = RetTrue
    /\ \E i \in 1..Len(last.before) : last.before[i].id = last.id
    /\ last.id \notin CacheIds

\* C20: once a delete has returned true and removed its id from the cache,
\* the cache never holds an entry with that id again.
C20_NoResurrection ==
    [][DeleteRemoved =>
          \A i \in 1..Len(establishments') : establishments'[i].id # last.id
      ]_vars

\* ---- the derived views ----

\* two characters are the same letter, whatever their case
SameLetter(c, d) ==
    \/ c = d
    \/ \E i \in 1..Len(UpperCase) : {c, d} = {UpperCase[i], LowerCase[i]}

\* text contains q, case-insensitively
ContainsCI(text, q) ==
    \E i \in 1..(Len(text) - Len(q) + 1) :
        \A k \in 1..Len(q) : SameLetter(text[i + k - 1], q[k])

TextMatch(est, q) ==
    \/ ContainsCI(est.nom, q)
    \/ ContainsCI(est.ville, q)
    \/ ContainsCI(est.adresse, q)
    \/ est.gestionnaire # <<>> /\ ContainsCI(est.gestionnaire[1], q)

SearchDone == last.op = "searchEstablishments"

\* C16: search(q, s) returns, in cache order, exactly the entries whose name,
\* city, address or (when present) manager contains q case-insensitively
\* and, unless s is absent or "all", whose status equals s; the cache is left
\* as it was.
C16_SearchCorrectness ==
    SearchDone =>
        /\ last.result =
               SelectSeq(last.before, LAMBDA est :
                   /\ TextMatch(est, last.query)
                   /\ \/ last.status = <<>>
                      \/ last.status[1] = "all"
                      \/ est.statut = last.status[1])
        /\ establishments = last.before

\* C16 as amended: the same, with the status filter also left out when s is
\* the empty text.
C16_SearchCorrectnessEmptyStatus ==
    SearchDone =>
        /\ last.result =
               SelectSeq(last.before, LAMBDA est :
                   /\ TextMatch(est, last.query)
                   /\ \/ last.status = <<>>
                      \/ last.status[1] = ""
                      \/ last.status[1] = "all"
                      \/ est.statut = last.status[1])
        /\ establishments = last.before

\* a search for "AB" among the active entries of a cache of three returned
\* two of them, one found by its name "Ab" and one only by its manager "aB"
C16_Witness ==
    /\ SearchDone
    /\ last.query = <<"A", "B">>
    /\ last.status = <<"ACTIF">>
    /\ Len(last.before) = 3
    /\ Len(last.result) = 2
    /\ last.result[1].gestionnaire = << <<"a", "B">> >>
    /\ last.result[2].nom = <<"A", "b">>

\* a search with the empty text as status returned entries of both statuses
C16_WitnessEmptyStatus ==
    /\ SearchDone
    /\ last.status = <<"">>
    /\ \E i, j \in 1..Len(last.result) :
           last.result[i].statut # last.result[j].statut

RECURSIVE SumOver(_, _)
SumOver(f, S) ==
    IF S = {} THEN 0
    ELSE LET x == CHOOSE x \in S : TRUE IN f[x] + SumOver(f, S \ {x})

\* the value of an optional number, a missing one counted as 0
Counted(field) == IF Len(field) = 0 THEN 0 ELSE field[1]

\* m is sum / n rounded to the nearest integer, a half rounded up
IsMean(m, sum, n) ==
    /\ 2 * m * n <= 2 * sum + n
    /\ 2 * sum + n < 2 * (m + 1) * n

StatsDone == last.op = "getEstablishmentStats"

\* C17: stats() returns the number of entries, the numbers of ACTIF and of
\* INACTIF entries, the sum of chambres_total with a missing value counted
\* as 0 and the mean of taux_occupation with a missing value counted as 0,
\* rounded to two decimals, 0 for an empty cache; the cache is left as it
\* was.
C17_StatsAggregation ==
    StatsDone =>
        LET c == last.before
            idx == 1..Len(c)
            r == last.result
        IN  /\ r.total = Len(c)
            /\ r.actifs = Cardinality({i \in idx : c[i].statut = "ACTIF"})
            /\ r.inactifs = Cardinality({i \in idx : c[i].statut = "INACTIF"})
            /\ r.totalChambres =
                   SumOver([i \in idx |-> Counted(c[i].chambres_total)], idx)
            /\ IF Len(c) = 0 THEN r.tauxOccupationMoyen = 0
               ELSE IsMean(r.tauxOccupationMoyen,
                           SumOver([i \in idx |->
                                        Counted(c[i].taux_occupation)], idx),
                           Len(c))
            /\ establishments = c

\* the stats of a cache with chambres_total 10, 20, 0 and taux_occupation
\* 50, 25, 0: total 3, totalChambres 30, mean 25.00
C17_Witness ==
    /\ StatsDone
    /\ Len(last.before) = 3
    /\ [i \in 1..3 |-> last.before[i].chambres_total] = <<<<10>>, <<20>>, <<0>>>>
    /\ [i \in 1..3 |-> last.before[i].taux_occupation] =
           <<<<5000>>, <<2500>>, <<0>>>>
    /\ last.result.total = 3
    /\ last.result.totalChambres = 30
    /\ last.result.tauxOccupationMoyen = 2500

\* the stats of a cache with an entry that has no taux_occupation, the mean
\* rounded up from a half: rates 0.01 and missing give 0.01
C17_WitnessMissing ==
    /\ StatsDone
    /\ Len(last.before) = 2
    /\ last.before[1].taux_occupation = <<1>>
    /\ last.before[2].taux_occupation = <<>>
    /\ last.result.tauxOccupationMoyen = 1

====
